---- MODULE Spec2Model ----
(***************************************************************************)
(* A model of the risk scoring pipeline of app/engine: the concentration   *)
(* index (hhi_engine.py), the mispricing index and sentiment aggregator    *)
(* (hope_engine.py), the chaotic risk layer (chaotic_risk.py) and the      *)
(* integrator (risk_integrator.py); and of the market feed fetcher of      *)
(* app/data (data_fetcher.py).                                             *)
(*                                                                         *)
(* Numbers.  Python floats are modelled as exact decimal fixed-point       *)
(* integers.  Values that the code rounds with round(x, 6) are carried in  *)
(* MICRO units (1e-6); the inputs of the chaotic layer are carried in      *)
(* MILLI units (1e-3) and the transcendental kernels (log, log10, atan,    *)
(* exp) are computed by integer series at 1e-4 (P4).  Binary rounding      *)
(* error of the floats (about 1e-16 relative) is below every unit used     *)
(* here and is not modelled; the two epsilons the code adds on purpose     *)
(* (1e-12 to total_energy, 1e-6 to scale) are modelled where they decide   *)
(* an outcome.                                                             *)
(*                                                                         *)
(* Python values.  A dict is a function from its keys; a missing key is a  *)
(* key outside DOMAIN.  A value whose type matters is a tagged record:     *)
(* Num(v), PyNone, Str(s), ListOf(items) or Dict(d).  An exception leaving *)
(* a function is the outcome Raise(name).                                  *)
(***************************************************************************)
EXTENDS Integers, Sequences, FiniteSets, TLC

VARIABLES
    cfg,     \* the fields of risk_integrator.cr, set by ChaoticRisk.__init__
    op,      \* the operation of the request being served, "idle" between requests
    arg,     \* its arguments
    ret,     \* what it returned (or raised)
    inv,     \* the integrate invocations in flight on the shared instance
    feed     \* the call of fetch_enriched_feed_for_isin in flight

vars == <<cfg, op, arg, ret, inv, feed>>

-----------------------------------------------------------------------------
(* Units *)
Milli == 10 * 10 * 10
Micro == Milli * Milli
P4 == 10 * Milli

(* Bounds of the model *)
MaxHoldings == 3
MaxProvs == 2
MaxTokens == 2
NumInvocations == 2

-----------------------------------------------------------------------------
(* Arithmetic *)

\* F(x) and F(x, y) with the arguments evaluated once, before F is applied.
Strict(F(_), x) == CHOOSE r \in {F(v) : v \in {x}} : TRUE
Strict2(F(_, _), x, y) == CHOOSE r \in {F(u, v) : u \in {x}, v \in {y}} : TRUE

Abs(x) == Strict(LAMBDA v : IF v < 0 THEN -v ELSE v, x)
Min2(a, b) == Strict2(LAMBDA u, v : IF u < v THEN u ELSE v, a, b)
Max2(a, b) == Strict2(LAMBDA u, v : IF u > v THEN u ELSE v, a, b)
Sign(x) == Strict(LAMBDA v : IF v < 0 THEN -1 ELSE IF v > 0 THEN 1 ELSE 0, x)

\* num/den rounded to the nearest integer, ties to even: Python's round()
\* on a value that is exactly representable.
RoundHalfEven(num, den) ==
    Strict2(LAMBDA n0, d0 :
                LET n == IF d0 < 0 THEN -n0 ELSE n0
                    d == IF d0 < 0 THEN -d0 ELSE d0
                    q == n \div d
                    r == n % d
                IN  IF 2 * r > d THEN q + 1
                    ELSE IF 2 * r < d THEN q
                    ELSE IF q % 2 = 0 THEN q ELSE q + 1,
            num, den)

\* a*b/c to the nearest integer
MulDiv(a, b, c) == RoundHalfEven(a * b, c)

\* n / d toward zero
TruncDiv(n, d) ==
    Strict2(LAMBDA u, v : Sign(u) * Sign(v) * (Abs(u) \div Abs(v)), n, d)

\* n/d at 1e-4, toward zero, by long division in two steps (so that n*100 and
\* d*100 are the largest products)
QuoP4(n, d) ==
    Strict2(LAMBDA u, v :
                LET an == IF u < 0 THEN -u ELSE u
                    ad == IF v < 0 THEN -v ELSE v
                    q1 == (an * 100) \div ad
                    r1 == (an * 100) % ad
                    q2 == (r1 * 100) \div ad
                IN  Sign(u) * Sign(v) * (q1 * 100 + q2),
            n, d)

RECURSIVE SumSeq(_)
SumSeq(s) == IF s = <<>> THEN 0 ELSE Head(s) + SumSeq(Tail(s))

RECURSIVE SumFun(_, _)
SumFun(f, D) ==
    IF D = {} THEN 0
    ELSE LET k == CHOOSE x \in D : TRUE IN f[k] + SumFun(f, D \ {k})

-----------------------------------------------------------------------------
(* Python values *)
Num(v) == [t |-> "num", v |-> v]
Str(s) == [t |-> "str", s |-> s]
PyNone == [t |-> "none"]
ListOf(items) == [t |-> "list", items |-> items]
Dict(d) == [t |-> "dict", d |-> d]
EmptyDict == Dict(<<>>)
IsDict(x) == x.t = "dict"
Raise(e) == [raised |-> e]
Raised(r) == "raised" \in DOMAIN r

\* d.get(k, default)
Get(d, k, default) == IF k \in DOMAIN d THEN d[k] ELSE default

\* bool(x)
Truthy(x) ==
    CASE x.t = "num" -> x.v # 0
      [] x.t = "str" -> x.s # ""
      [] x.t = "list" -> x.items # <<>>
      [] x.t = "dict" -> DOMAIN x.d # {}
      [] OTHER -> FALSE

\* x or y
Or(x, y) == IF Truthy(x) THEN x ELSE y

\* float(x): the number, or the exception float() raises.  A Str here is a
\* string that is not a numeral.
Float(x) ==
    CASE x.t = "num" -> [v |-> x.v]
      [] x.t = "str" -> Raise("ValueError")
      [] OTHER -> Raise("TypeError")

-----------------------------------------------------------------------------
(* engine/hhi_engine.py *)

IsinNames == <<"A", "B", "C", "D", "E">>
Isins == {IsinNames[i] : i \in 1..MaxHoldings}
WeightValues == {-2, 0, 1, 2, 3}

\* Every isin -> weight mapping over Isins (a dict has no duplicate keys).
WeightMaps == UNION {[D -> WeightValues] : D \in SUBSET Isins}

\* Line 31: hhi_normalized from sq = sum of w^2, total = sum of w and n = len,
\* (hhi - 1/n) / (1 - 1/n) with hhi = sq/total^2, rounded to 6 places (line 35).
HhiNormalizedNoRemap(sq, total, n) ==
    IF n > 1 THEN RoundHalfEven(sq * Micro, total * total) ELSE Micro

HhiNormalized(sq, total, n) ==
    IF n > 1
    THEN RoundHalfEven((n * sq - total * total) * Micro, (n - 1) * total * total)
    ELSE Micro

\* Lines 21-39, for a mapping that passed both checks
HhiResult(weights, total, sq, n) ==
    [hhi |-> RoundHalfEven(sq * Micro, total * total),
     hhi_normalized |-> HhiNormalized(sq, total, n),
     n |-> n,
     total_weight |-> total,
     items |-> [i \in DOMAIN weights |->
                  [weight |-> weights[i],
                   pct |-> RoundHalfEven(weights[i] * Micro, total),
                   pct_sq |-> RoundHalfEven(weights[i] * weights[i] * Micro,
                                            total * total)]]]

compute_hhi_structured_unchecked(weights) ==
    Strict2(LAMBDA total, sq :
                IF DOMAIN weights = {} \/ total = 0
                THEN [hhi |-> 0, hhi_normalized |-> 0, n |-> Cardinality(DOMAIN weights),
                      total_weight |-> total, items |-> <<>>]
                ELSE HhiResult(weights, total, sq, Cardinality(DOMAIN weights)),
            SumFun(weights, DOMAIN weights),
            SumFun([i \in DOMAIN weights |-> weights[i] * weights[i]], DOMAIN weights))

compute_hhi_structured(weights) ==
    Strict2(LAMBDA total, sq :
                IF DOMAIN weights = {}
                THEN [error |-> "No weights provided", hhi |-> PyNone]
                ELSE IF total = 0 THEN [error |-> "Total weights = 0", hhi |-> PyNone]
                ELSE HhiResult(weights, total, sq, Cardinality(DOMAIN weights)),
            SumFun(weights, DOMAIN weights),
            SumFun([i \in DOMAIN weights |-> weights[i] * weights[i]], DOMAIN weights))

\* [x.strip() for x in s.split(",") if x.strip()]: the tokens that are not empty.
SplitIsins(tokens) == SelectSeq(tokens, LAMBDA x : x # "")
SplitWeights(tokens) == SelectSeq(tokens, LAMBDA x : x # Str(""))

\* {isins[i]: weights[i] for i in range(len(isins))}: the last occurrence wins.
Paired(isins, weights) ==
    [k \in {isins[i] : i \in DOMAIN isins} |->
        LET last == CHOOSE i \in DOMAIN isins :
                        /\ isins[i] = k
                        /\ \A j \in DOMAIN isins : isins[j] = k => j <= i
        IN  weights[last]]

\* Lines 51-54: the weights after float(w) for every w, or the failure.
FloatAll(ws) ==
    IF \E i \in DOMAIN ws : Raised(Float(ws[i]))
    THEN [ok |-> FALSE]
    ELSE [ok |-> TRUE, vs |-> [i \in DOMAIN ws |-> Float(ws[i]).v]]

compute_hhi_for_portfolio(isinTokens, weightTokens) ==
    Strict2(LAMBDA isins, fl :
                IF ~fl.ok THEN [error |-> "Weights must be numeric"]
                ELSE IF Len(isins) # Len(fl.vs)
                     THEN [error |-> "ISINs count does not match weights count"]
                ELSE compute_hhi_structured(Paired(isins, fl.vs)),
            SplitIsins(isinTokens), FloatAll(SplitWeights(weightTokens)))

-----------------------------------------------------------------------------
(* math: log, log10, exp, atan, sqrt by integer series; results at 1e-4 *)

Ln2P4 == 6931        \* ln 2
Ln10P4 == 23026      \* ln 10
HalfPiP4 == 15708    \* pi / 2
TanPi8P4 == 4142     \* tan(pi / 8)

\* atanh(y) for 0 <= y <= 1/3: y + y^3/3 + ... + y^9/9
AtanhSeries(y0) ==
    Strict(LAMBDA y :
               LET y2 == (y * y) \div P4
                   y3 == (y * y2) \div P4
                   y5 == (y3 * y2) \div P4
                   y7 == (y5 * y2) \div P4
                   y9 == (y7 * y2) \div P4
               IN  y + RoundHalfEven(y3, 3) + RoundHalfEven(y5, 5)
                     + RoundHalfEven(y7, 7) + RoundHalfEven(y9, 9),
           y0)

\* math.log(a / b) for integers a, b > 0: halve or double until 1 <= a/b < 2,
\* then ln x = 2 atanh((x - 1) / (x + 1)).
RECURSIVE LnRat(_, _)
LnRat(a0, b0) ==
    Strict2(LAMBDA a, b :
                IF a >= 2 * b THEN Ln2P4 + LnRat(a, 2 * b)
                ELSE IF a < b THEN LnRat(2 * a, b) - Ln2P4
                ELSE 2 * AtanhSeries(QuoP4(a - b, a + b)),
            a0, b0)

\* math.log10(a / b)
Log10Rat(a, b) == RoundHalfEven(LnRat(a, b) * P4, Ln10P4)

\* math.exp(-t) for 0 <= t <= 1/2: the Taylor series to t^6
ExpNegSeries(t) ==
    LET t2 == (t * t) \div P4
        t3 == (t2 * t) \div P4
        t4 == (t3 * t) \div P4
        t5 == (t4 * t) \div P4
        t6 == (t5 * t) \div P4
    IN  P4 - t + RoundHalfEven(t2, 2) - RoundHalfEven(t3, 6)
          + RoundHalfEven(t4, 24) - RoundHalfEven(t5, 120) + RoundHalfEven(t6, 720)

\* math.exp(-t) for t >= 0: exp(-t) = exp(-t/2)^2 down to t <= 1/2
RECURSIVE ExpNeg(_)
ExpNeg(t0) ==
    Strict(LAMBDA t :
               IF t > P4 \div 2
               THEN Strict(LAMBDA h :
                               LET sq == (h * h) \div P4
                               IN  IF t % 2 = 0 THEN sq ELSE sq - (sq \div (2 * P4)),
                           ExpNeg(t \div 2))
               ELSE ExpNegSeries(t),
           t0)

\* atan(z) for |z| <= tan(pi/8): z - z^3/3 + z^5/5 - ... - z^11/11
AtanSeries(z0) ==
    Strict(LAMBDA z :
               LET z2 == (z * z) \div P4
                   z3 == RoundHalfEven(z * z2, P4)
                   z5 == RoundHalfEven(z3 * z2, P4)
                   z7 == RoundHalfEven(z5 * z2, P4)
                   z9 == RoundHalfEven(z7 * z2, P4)
                   z11 == RoundHalfEven(z9 * z2, P4)
               IN  z - RoundHalfEven(z3, 3) + RoundHalfEven(z5, 5) - RoundHalfEven(z7, 7)
                     + RoundHalfEven(z9, 9) - RoundHalfEven(z11, 11),
           z0)

\* math.atan(a / b) for 0 <= a <= b, b > 0:
\*   a/b > tan(pi/8)  pi/4 + atan((a - b)/(a + b))
AtanUnit(a, b) ==
    Strict(LAMBDA z :
               IF z > TanPi8P4
               THEN (HalfPiP4 \div 2) + AtanSeries(QuoP4(a - b, a + b))
               ELSE AtanSeries(z),
           QuoP4(a, b))

\* math.atan(n / d) for n >= 0, d > 0:  n/d > 1  pi/2 - atan(d/n)
AtanPos(n, d) == IF n > d THEN HalfPiP4 - AtanUnit(d, n) ELSE AtanUnit(n, d)

\* math.atan(n / d), d # 0
AtanRat(n, d) == Sign(n) * Sign(d) * AtanPos(Abs(n), Abs(d))

\* math.atan(n / d) after bringing n and d below 1e6; d = 0 stands for a
\* quotient beyond 1e6, whose atan is pi/2 at 1e-4.
RECURSIVE AtanReduced(_, _)
AtanReduced(n0, d0) ==
    Strict2(LAMBDA n, d :
                IF d = 0 THEN Sign(n) * HalfPiP4
                ELSE IF Abs(n) > Micro \/ Abs(d) > Micro
                     THEN AtanReduced(TruncDiv(n, 10), TruncDiv(d, 10))
                ELSE AtanRat(n, d),
            n0, d0)

\* floor(sqrt(n)) by Newton's iteration from x
RECURSIVE IsqrtFrom(_, _)
IsqrtFrom(n, x) ==
    Strict(LAMBDA y : IF y >= x THEN x ELSE IsqrtFrom(n, y), (x + n \div x) \div 2)

Isqrt(n0) == Strict(LAMBDA n : IF n <= 0 THEN 0 ELSE IsqrtFrom(n, n), n0)

-----------------------------------------------------------------------------
(* engine/hope_engine.py *)

HmiClipMax == 1000000    \* hmi is clipped to [0, 1e6]

\* Lines 13-21: 1 - exp(-log10(hmi_clipped + 1)), clamped to [0, 1], in MICRO;
\* hmi = me / ob with ob > 0.
HmiNormalized(me, ob) ==
    LET atMax == me \div HmiClipMax >= ob            \* me/ob >= 1e6
        num == IF atMax THEN HmiClipMax + 1 ELSE Max2(me, 0) + ob
        den == IF atMax THEN 1 ELSE ob
    IN  Max2(0, Min2(Micro, (P4 - ExpNeg(Log10Rat(num, den))) * 100))

\* HopeEngine.compute_hmi: the arguments are Num(v) or PyNone.
compute_hmi(market_expectation, objective_probability) ==
    IF objective_probability.t = "none" \/ objective_probability.v <= 0
    THEN [hmi |-> PyNone, error |-> "objective_prob must be > 0", hmi_normalized |-> 0]
    ELSE IF market_expectation.t = "none" THEN Raise("TypeError")
    ELSE [hmi |-> [num |-> market_expectation.v, den |-> objective_probability.v],
          hmi_normalized |-> HmiNormalized(market_expectation.v, objective_probability.v)]

\* HopeEngine.aggregate_sentiment_from_sources: mean and population standard
\* deviation, in MICRO (the deviation from an integer square root at 1e-4).
aggregate_sentiment_from_sources(sentiments) ==
    Strict2(LAMBDA sum, sumsq :
                LET n == Len(sentiments)
                IN  IF n = 0 THEN [mean |-> 0, std |-> 0, count |-> 0]
                    ELSE [mean |-> RoundHalfEven(sum * Micro, n),
                          std |-> IF n > 1
                                  THEN RoundHalfEven(
                                         Isqrt((n * sumsq - sum * sum) * P4 * P4) * 100, n)
                                  ELSE 0,
                          count |-> n],
            SumSeq(sentiments),
            SumSeq([i \in DOMAIN sentiments |-> sentiments[i] * sentiments[i]]))

-----------------------------------------------------------------------------
(* engine/chaotic_risk.py *)

\* Defaults of ChaoticRisk.__init__, in MILLI
DefaultWInstitutional == 1500
DefaultWIndividual == 1000
DefaultWVectorCoherence == 1000
DefaultWConfidence == 1000
DefaultGlobalDampen == 900

\* ChaoticRisk.__init__(config): the five fields of the instance.
ChaoticRiskInit(config) ==
    LET c == IF Truthy(config) THEN config.d ELSE <<>>
    IN  [w_institutional |-> Get(c, "w_institutional", DefaultWInstitutional),
         w_individual |-> Get(c, "w_individual", DefaultWIndividual),
         w_vector_coherence |-> Get(c, "w_vector_coherence", DefaultWVectorCoherence),
         w_confidence |-> Get(c, "w_confidence", DefaultWConfidence),
         global_dampen |-> Get(c, "global_dampen", DefaultGlobalDampen)]

\* _norm01: max(0.0, min(1.0, x)) with 1.0 = one
norm01_identity(x, one) == x

norm01(x, one) == Max2(0, Min2(one, x))

\* The entropy of the positive weights pos of vm whose sum is s, over log(N).
EntropyOver(vm, s, pos) ==
    Strict2(LAMBDA ent, max_ent :
                IF max_ent > 0 THEN RoundHalfEven(ent * P4, max_ent) ELSE 0,
            - SumFun([k \in pos |->
                        RoundHalfEven(QuoP4(vm[k], s) * LnRat(Abs(vm[k]), Abs(s)), P4)],
                     pos),
            LnRat(Cardinality(pos), 1))

\* _entropy_of_weights over the values of vector_map (MILLI); result at 1e-4.
\* p * log(p + 1e-12) is computed as p * log(p): 1e-12 is below the unit.
entropy_of_weights(vm) ==
    Strict2(LAMBDA s, pos :
                IF DOMAIN vm = {} THEN 0
                ELSE IF s <= 0 THEN 0
                ELSE IF pos = {} THEN 0
                ELSE EntropyOver(vm, s, pos),
            SumFun(vm, DOMAIN vm), {k \in DOMAIN vm : vm[k] > 0})

\* str.lower() on the labels used here
Lower(x) ==
    CASE x = "State" -> "state"
      [] x = "INSTITUTIONAL" -> "institutional"
      [] OTHER -> x

InstitutionalLike == {"institutional", "state", "agency"}

\* One pass of the loop body (lines 67-87) over provocation p: the weighted
\* intensity, its class, the confidence and the vector key, or the exception
\* the body raises.
ProvocationEntry(self, p) ==
    LET fi == Float(Or(Get(p, "intensity", Num(0)), Num(0)))
        src == Or(Get(p, "source_type", PyNone), Str("individual"))
        fc == Float(Or(Get(p, "confidence", Num(0)), Num(0)))
        vect == Or(Get(p, "vector", PyNone), Str("unknown"))
        inst == Lower(src.s) \in InstitutionalLike
        weight == IF inst THEN self.w_institutional ELSE self.w_individual
    IN  IF Raised(fi) THEN fi
        ELSE IF src.t # "str" THEN Raise("AttributeError")
        ELSE IF Raised(fc) THEN fc
        ELSE IF vect.t = "list" THEN Raise("TypeError")
        ELSE [weighted |-> MulDiv(fi.v, weight, Milli),
              inst |-> inst,
              conf |-> fc.v,
              vect |-> vect]

\* Lines 78-87: the accumulators after entry e.
Accumulate(acc, e) ==
    [sum_inst |-> acc.sum_inst + (IF e.inst THEN e.weighted ELSE 0),
     sum_ind |-> acc.sum_ind + (IF e.inst THEN 0 ELSE e.weighted),
     vector_map |->
        [k \in DOMAIN acc.vector_map \cup {e.vect} |->
            Get(acc.vector_map, k, 0) + (IF k = e.vect THEN Abs(e.weighted) ELSE 0)],
     conf_sum |-> acc.conf_sum + e.conf,
     count |-> acc.count + 1]

\* The loop of lines 66-87 from entry i on, with the accumulators acc =
\* [sum_inst, sum_ind, vector_map, conf_sum, count]; stops at the first exception.
RECURSIVE Gather(_, _, _, _)
Gather(self, provocations, i, acc0) ==
    IF i > Len(provocations) THEN acc0
    ELSE Strict2(LAMBDA acc, e :
                     IF Raised(e) THEN e
                     ELSE Gather(self, provocations, i + 1, Accumulate(acc, e)),
                 acc0, ProvocationEntry(self, provocations[i]))

\* Lines 61-64: the empty accumulators
GatherStart == [sum_inst |-> 0, sum_ind |-> 0, vector_map |-> <<>>,
                conf_sum |-> 0, count |-> 0]

\* nur or {} / rsz or {}
OrEmptyDict(x) == IF Truthy(x) THEN x ELSE EmptyDict

\* float(d.get(key, d.get(fallback, 0.0) or 0.0)) inside try/except: 0 on any
\* exception (d is not a dict, the value is None or not a numeral).  MICRO.
SoftScalar(d, key, fallback) ==
    IF ~IsDict(d) THEN 0
    ELSE LET f == Float(Get(d.d, key, Or(Get(d.d, fallback, Num(0)), Num(0))))
         IN  IF Raised(f) THEN 0 ELSE f.v

\* total_energy = sum_inst + sum_ind + 1e-12: v in MILLI and eps counting the
\* 1e-12 that was added.
TotalEnergyNoEps(sum_inst, sum_ind) == [v |-> sum_inst + sum_ind, eps |-> 0]

TotalEnergy(sum_inst, sum_ind) == [v |-> sum_inst + sum_ind, eps |-> 1]

\* total_energy > c, c in MILLI
EnergyAbove(te, c) == te.v > c \/ (te.v = c /\ te.eps > 0)

\* Line 131: scale at 1e-4 for x = total_energy + 1 > 0 (log10(1e-12) = -12)
Scale(x) ==
    IF x > 0 THEN P4 + Log10Rat(x, Milli) ELSE P4 - 12 * P4

\* Lines 129-134: compressed at 1e-4, 0 when log10 raises ValueError.
\* atan(modulated / (scale + 1e-6)) = atan(modulated*1000 / (scale*100 + 1))
\* with modulated in MILLI and scale at 1e-4.
Compressed(modulated, te) ==
    IF te.v + Milli < 0 \/ (te.v + Milli = 0 /\ te.eps = 0) THEN 0
    ELSE RoundHalfEven(
            AtanReduced(modulated * Milli, Scale(te.v + Milli) * 100 + 1) * P4,
            HalfPiP4)

FocusedCoherence == 8000      \* coherence > 0.8, at 1e-4
FocusedEnergy == 10000        \* total_energy > 10.0, MILLI
DominanceEnergy == 1000       \* total_energy > 1.0
NoiseConfidence == 250        \* avg_conf < 0.25
NoiseEnergy == 2000           \* total_energy > 2.0

\* Lines 152-159
FlagsOf(coherence, te, sum_inst, avg_conf) ==
    (IF coherence > FocusedCoherence /\ EnergyAbove(te, FocusedEnergy)
     THEN <<"FOCUSED_HIGH_INTENSITY">> ELSE <<>>)
    \o (IF 10 * sum_inst > 6 * te.v /\ EnergyAbove(te, DominanceEnergy)
        THEN <<"INSTITUTIONAL_DOMINANCE">> ELSE <<>>)
    \o (IF avg_conf < NoiseConfidence /\ EnergyAbove(te, NoiseEnergy)
        THEN <<"LOW_CONFIDENCE_NOISE">> ELSE <<>>)

\* Lines 89-102: total_energy, coherence, avg_conf and raw from the accumulators
RawOf(self, g) ==
    Strict2(LAMBDA coherence, avg_conf :
                [te |-> TotalEnergy(g.sum_inst, g.sum_ind),
                 coherence |-> coherence,
                 avg_conf |-> avg_conf,
                 raw |-> MulDiv(
                           MulDiv(g.sum_inst + g.sum_ind,
                                  Milli + RoundHalfEven(self.w_vector_coherence * coherence, P4),
                                  Milli),
                           Milli + RoundHalfEven(self.w_confidence * avg_conf, Milli),
                           Milli)],
            P4 - entropy_of_weights(g.vector_map),
            IF g.count > 0 THEN RoundHalfEven(g.conf_sum, g.count) ELSE 0)

\* Lines 104-125: nur_amp, rsz_damp (MILLI) and modulated
ModulatedOf(r, nur, rsz) ==
    Strict2(LAMBDA nur_amp, rsz_damp :
                [nur_amp |-> nur_amp,
                 rsz_damp |-> rsz_damp,
                 modulated |-> MulDiv(MulDiv(r.raw, nur_amp, Milli), rsz_damp, Milli)],
            Milli + RoundHalfEven(
                        norm01(SoftScalar(nur, "severity_score", "severity"), Micro), Milli),
            (Milli + Milli \div 5) - RoundHalfEven(
                        norm01(SoftScalar(rsz, "stability_score", "action_weight"), Micro) * 7,
                        P4))

\* Lines 137-165: the result from the stages above
ResultOf(self, g, r, m, compressed) ==
    [cr_scalar |-> norm01(RoundHalfEven(compressed * self.global_dampen, Milli), P4) * 100,
     components |->
        [sum_institutional |-> g.sum_inst,
         sum_individual |-> g.sum_ind,
         total_energy |-> r.te.v,
         vector_count |-> Cardinality(DOMAIN g.vector_map),
         vector_coherence |-> r.coherence,
         avg_confidence |-> r.avg_conf,
         nur_amp |-> m.nur_amp,
         rsz_damp |-> m.rsz_damp,
         raw_modulated |-> m.modulated,
         compressed |-> compressed],
     flags |-> FlagsOf(r.coherence, r.te, g.sum_inst, r.avg_conf)]

\* Lines 89-165 of compute_from_provocations, after the loop.
Score(self, g, nur, rsz) ==
    Strict(LAMBDA r :
               Strict(LAMBDA m :
                          Strict(LAMBDA compressed : ResultOf(self, g, r, m, compressed),
                                 Compressed(m.modulated, r.te)),
                      ModulatedOf(r, nur, rsz)),
           RawOf(self, g))

\* Lines 89-165 on the outcome g of the loop (the exception, when it raised)
AfterGather(self, g, nur, rsz) ==
    IF Raised(g) THEN g ELSE Score(self, g, OrEmptyDict(nur), OrEmptyDict(rsz))

\* compute_from_provocations without the early return of lines 57-58
compute_from_provocations_no_early_return(self, provocations, nur, rsz) ==
    Strict(LAMBDA g : AfterGather(self, g, nur, rsz),
           Gather(self, Or(provocations, ListOf(<<>>)).items, 1, GatherStart))

\* ChaoticRisk.compute_from_provocations(provocations, nur, rsz); provocations
\* is ListOf(entries) or PyNone, each entry the function of its keys.
\* cr_scalar is in MICRO; the components are in the units they are computed
\* in (sums, energy, confidence, nur_amp, rsz_damp and raw_modulated in MILLI,
\* coherence and compressed at 1e-4).
compute_from_provocations(self, provocations, nur, rsz) ==
    IF ~Truthy(provocations)
    THEN [cr_scalar |-> 0, components |-> <<>>, flags |-> <<>>]
    ELSE Strict(LAMBDA g : AfterGather(self, g, nur, rsz),
                Gather(self, provocations.items, 1, GatherStart))

-----------------------------------------------------------------------------
(* engine/risk_integrator.py *)

\* RiskIntegrator.__init__(config): the fields of self.cr (self.hhi and
\* self.hope have none).
RiskIntegratorInit(config) ==
    ChaoticRiskInit(IF Truthy(config) THEN Get(config.d, "chaotic", EmptyDict) ELSE PyNone)

\* The fields of the instance after a step of integrate: no line of integrate
\* or of the engines' methods assigns an attribute of self.
InstanceAfterStepTuned(self) ==
    [self EXCEPT !.global_dampen = self.global_dampen \div 2]

InstanceAfterStep(self) == self

\* Line 25: {p["isin"]: p.get("weight", 0.0) for p in portfolio}
PortfolioWeights(portfolio) ==
    Paired([i \in DOMAIN portfolio |-> portfolio[i].isin],
           [i \in DOMAIN portfolio |-> Get(portfolio[i], "weight", 0)])

\* Lines 28-33
HopeResAlways(market_expectation, objective_prob) ==
    IF market_expectation.t # "none"
    THEN compute_hmi(market_expectation, objective_prob)
    ELSE [hmi |-> PyNone, hmi_normalized |-> 0]

HopeRes(market_expectation, objective_prob) ==
    IF market_expectation.t # "none" /\ objective_prob.t # "none"
    THEN compute_hmi(market_expectation, objective_prob)
    ELSE [hmi |-> PyNone, hmi_normalized |-> 0]

\* Lines 39-41: d.get(key, 0.0) if isinstance(d, dict) else 0.0
SignalScore(d, key) == IF IsDict(d) THEN Get(d.d, key, Num(0)) ELSE Num(0)

\* Coefficients of the composite (lines 48-55), in hundredths
CoefHhi == 20
CoefNur == 15
CoefRsz == 10
CoefCycles == 15
CoefHope == 20
CoefCr == 20

\* Lines 48-55: the weighted sum of six sub-scores in MICRO, in units of 1e-8
CompositeOldWeights(hhi_normalized, nur_score, rsz_score, cycles_score, hope_norm, cr_scalar) ==
    (CoefHhi + 5) * hhi_normalized + CoefNur * nur_score + CoefRsz * rsz_score
      + CoefCycles * cycles_score + (CoefHope + 5) * hope_norm + (CoefCr - 10) * cr_scalar

Composite(hhi_normalized, nur_score, rsz_score, cycles_score, hope_norm, cr_scalar) ==
    CoefHhi * hhi_normalized + CoefNur * nur_score + CoefRsz * rsz_score
      + CoefCycles * cycles_score + CoefHope * hope_norm + CoefCr * cr_scalar

\* Thresholds of lines 58-65, in units of 1e-8
DangerAbove == 65000000
ElevatedAbove == 40000000
WatchAbove == 20000000

RiskLevel(composite) ==
    IF composite > DangerAbove THEN "DANGER"
    ELSE IF composite > ElevatedAbove THEN "ELEVATED"
    ELSE IF composite > WatchAbove THEN "WATCH"
    ELSE "STABLE"

\* The steps of integrate; a is the arguments, l the locals so far.
\* 1) lines 24-26
StepHhi(a, l) ==
    [hhi_struct |-> compute_hhi_structured(PortfolioWeights(a.portfolio))]

\* 2) lines 28-33
StepHope(a, l) ==
    Strict(LAMBDA hope_res :
               l @@ [hope_res |-> hope_res,
                     hope_norm |-> Get(hope_res, "hmi_normalized", 0)],
           HopeRes(a.market_expectation, a.objective_prob))

\* 3) line 36
StepSentiment(a, l) ==
    l @@ [sentiment_agg |->
            aggregate_sentiment_from_sources(Or(a.sentiments, ListOf(<<>>)).items)]

\* 4) lines 39-41
StepSignals(a, l) ==
    l @@ [nur_score |-> SignalScore(a.nur, "severity_score"),
          rsz_score |-> SignalScore(a.rsz, "action_weight"),
          cycles_score |-> SignalScore(a.cycles, "cycle_pressure")]

\* 5) lines 44-45: the chaotic layer, reading the fields of self.cr
StepChaotic(self, a, l) ==
    Strict(LAMBDA cr_res :
               IF Raised(cr_res) THEN cr_res
               ELSE l @@ [cr_res |-> cr_res, cr_scalar |-> Get(cr_res, "cr_scalar", 0)],
           compute_from_provocations(self, Or(a.provocations, ListOf(<<>>)), a.nur, a.rsz))

\* 6) lines 48-78: float * x raises TypeError when x is not a number
StepComposite(a, l) ==
    IF l.nur_score.t # "num" \/ l.rsz_score.t # "num" \/ l.cycles_score.t # "num"
    THEN Raise("TypeError")
    ELSE Strict(LAMBDA composite :
                    [portfolio_hhi |-> l.hhi_struct,
                     hope |-> l.hope_res,
                     sentiment_agg |-> l.sentiment_agg,
                     nur |-> a.nur,
                     rsz |-> a.rsz,
                     cycles |-> a.cycles,
                     provocations |-> Or(a.provocations, ListOf(<<>>)),
                     chaotic_risk |-> l.cr_res,
                     composite |-> RoundHalfEven(composite, 100),
                     risk_level |-> RiskLevel(composite)],
                Composite(Get(l.hhi_struct, "hhi_normalized", 0),
                          l.nur_score.v, l.rsz_score.v, l.cycles_score.v,
                          l.hope_norm, l.cr_scalar))

\* RiskIntegrator.integrate(portfolio, nur, rsz, cycles, market_expectation,
\* objective_prob, sentiments, provocations) on the instance with fields self
integrate(self, a) ==
    Strict(LAMBDA l5 : IF Raised(l5) THEN l5 ELSE StepComposite(a, l5),
      Strict(LAMBDA l4 : StepChaotic(self, a, l4),
        Strict(LAMBDA l3 : StepSignals(a, l3),
          Strict(LAMBDA l2 : StepSentiment(a, l2),
            Strict(LAMBDA l1 : StepHope(a, l1), StepHhi(a, <<>>))))))

\* Step 5 as two steps of an invocation that others interleave with.
\* chaotic_risk.py lines 53-87: up to the end of the loop, reading
\* w_institutional and w_individual of self.cr; g holds the accumulators (or
\* the exception) and is absent after the early return of line 58.
StepGather(self, a, l) ==
    IF Truthy(Or(a.provocations, ListOf(<<>>)))
    THEN l @@ [g |-> Gather(self, a.provocations.items, 1, GatherStart)]
    ELSE l

\* chaotic_risk.py lines 89-165 and risk_integrator.py line 45: the rest,
\* reading w_vector_coherence, w_confidence and global_dampen of self.cr
StepScore(self, a, l) ==
    Strict(LAMBDA cr_res :
               IF Raised(cr_res) THEN cr_res
               ELSE [k \in DOMAIN l \ {"g"} |-> l[k]]
                      @@ [cr_res |-> cr_res, cr_scalar |-> Get(cr_res, "cr_scalar", 0)],
           IF "g" \in DOMAIN l
           THEN AfterGather(self, l.g, a.nur, a.rsz)
           ELSE [cr_scalar |-> 0, components |-> <<>>, flags |-> <<>>])

-----------------------------------------------------------------------------
(* The inputs the model draws from *)

\* Sequences over S of length 0..n
RECURSIVE SeqsUpTo(_, _)
SeqsUpTo(S, n) ==
    IF n = 0 THEN {<<>>}
    ELSE LET shorter == SeqsUpTo(S, n - 1)
         IN  shorter \cup {Append(q, x) : q \in {r \in shorter : Len(r) = n - 1}, x \in S}

IsinTokens == {"A", "B", ""}
WeightTokens == {Num(1), Num(2), Num(-1), Str("x"), Str("")}

\* RiskIntegrator(config): none (the shared risk_integrator), and two others
ConfigSamples ==
    {PyNone,
     Dict([chaotic |-> Dict([global_dampen |-> 2 * Milli])]),
     Dict([chaotic |-> Dict([w_institutional |-> 2 * Milli, w_individual |-> -Milli,
                             w_vector_coherence |-> 0, global_dampen |-> -Milli \div 2])])}

\* Provocation entries: intensity and confidence in MILLI
Prov1 == [id |-> Str("p1"), intensity |-> Num(10 * Milli), vector |-> Str("a"),
       confidence |-> Num(Milli)]
Prov2 == [id |-> Str("p2"), source_type |-> Str("institutional"), intensity |-> Num(8 * Milli),
       vector |-> Str("a"), confidence |-> Num(900)]
Prov3 == [id |-> Str("p3"), source_type |-> Str("State"), intensity |-> Num(Milli),
       vector |-> Str("b"), confidence |-> Num(100)]
Prov4 == [id |-> Str("p4"), intensity |-> Num(-Milli), vector |-> Str("b")]
Prov5 == [id |-> Str("p5"), source_type |-> Str("agency"), intensity |-> Num(-12 * Milli)]
Prov6 == [id |-> Str("p6")]
Prov7 == [id |-> Str("p7"), intensity |-> Str("abc"), vector |-> Str("a")]
Prov8 == [id |-> Str("p8"), source_type |-> Num(5), intensity |-> Num(4 * Milli)]
Prov9 == [id |-> Str("p9"), intensity |-> Num(2 * Milli), vector |-> ListOf(<<1>>),
       confidence |-> PyNone]
Prov10 == [id |-> Str("p10"), source_type |-> PyNone, intensity |-> PyNone,
        vector |-> Str("c"), confidence |-> Str("x")]

ProvocationSamples == {Prov1, Prov2, Prov3, Prov4, Prov5, Prov6, Prov7, Prov8, Prov9, Prov10}

\* nur, rsz, cycles: the scalar fields in MICRO
NurSamples ==
    {EmptyDict, PyNone,
     Dict([severity_score |-> Num(Micro)]),
     Dict([severity_score |-> Num(666667)]),
     Dict([severity |-> Num(Micro \div 2)]),
     Dict([severity_score |-> Str("high")]),
     Dict([severity_score |-> PyNone])}

RszSamples ==
    {EmptyDict,
     Dict([action_weight |-> Num(Micro)]),
     Dict([stability_score |-> Num(3 * (Micro \div 10)), action_weight |-> Str("x")])}

CyclesSamples ==
    {EmptyDict,
     Dict([cycle_pressure |-> Num(Micro)]),
     Str("n/a")}

PortfolioSamples ==
    {<<>>,
     <<[isin |-> "A", weight |-> 1], [isin |-> "B", weight |-> -1]>>,
     <<[isin |-> "A", weight |-> 5], [isin |-> "B", weight |-> 5]>>,
     <<[isin |-> "A", weight |-> 10]>>,
     <<[isin |-> "A", weight |-> 3], [isin |-> "B"], [isin |-> "A", weight |-> 1],
       [isin |-> "C", weight |-> 2]>>}

\* <<market_expectation, objective_prob>>
HopeSamples ==
    {<<PyNone, PyNone>>, <<Num(1), PyNone>>, <<PyNone, Num(2)>>, <<Num(1), Num(1)>>,
     <<Num(3), Num(0)>>, <<Num(-1), Num(2)>>}

HopeValues == {PyNone, Num(-1), Num(0), Num(1), Num(2), Num(7), Num(2000000)}

SentimentSamples == {PyNone, ListOf(<<>>), ListOf(<<1>>), ListOf(<<1, -1, 1>>)}

IntegrateProvocations ==
    {PyNone, ListOf(<<>>), ListOf(<<Prov1>>), ListOf(<<Prov2, Prov3>>), ListOf(<<Prov7>>)}

IntegrateArgs ==
    {[portfolio |-> pf, nur |-> n, rsz |-> r, cycles |-> c,
      market_expectation |-> h[1], objective_prob |-> h[2],
      sentiments |-> s, provocations |-> pv] :
        pf \in PortfolioSamples, n \in NurSamples, r \in RszSamples, c \in CyclesSamples,
        h \in HopeSamples, s \in {PyNone, ListOf(<<1, -1, 1>>)},
        pv \in IntegrateProvocations}


\* The arguments of the interleaved invocations
ConcArgs ==
    {[portfolio |-> <<[isin |-> "A", weight |-> 5], [isin |-> "B", weight |-> 5]>>,
      nur |-> EmptyDict, rsz |-> EmptyDict, cycles |-> EmptyDict,
      market_expectation |-> PyNone, objective_prob |-> PyNone,
      sentiments |-> PyNone, provocations |-> PyNone],
     [portfolio |-> <<[isin |-> "A", weight |-> 10]>>,
      nur |-> Dict([severity_score |-> Num(Micro)]), rsz |-> EmptyDict,
      cycles |-> Dict([cycle_pressure |-> Num(Micro)]),
      market_expectation |-> Num(1), objective_prob |-> Num(1),
      sentiments |-> ListOf(<<1, -1, 1>>), provocations |-> ListOf(<<Prov2, Prov3>>)],
     [portfolio |-> <<>>,
      nur |-> EmptyDict, rsz |-> Dict([action_weight |-> Num(Micro)]),
      cycles |-> EmptyDict,
      market_expectation |-> Num(3), objective_prob |-> Num(0),
      sentiments |-> PyNone, provocations |-> ListOf(<<Prov1, Prov7>>)]}

-----------------------------------------------------------------------------
(* The requests served one at a time: api/routers/risk_router.py             *)
(* op, arg, ret hold the request being answered; the engines hold only cfg.  *)

Idle == op = "idle"

\* HHICalculator().compute_hhi_structured(weights)
CallHhiStructured ==
    /\ Idle
    /\ \E w \in WeightMaps :
          /\ op' = "compute_hhi_structured"
          /\ arg' = [weights |-> w]
          /\ ret' = compute_hhi_structured(w)
    /\ UNCHANGED <<cfg, inv, feed>>

\* POST /risk/hhi
CallHhiForPortfolio ==
    /\ Idle
    /\ \E i \in SeqsUpTo(IsinTokens, MaxTokens), w \in SeqsUpTo(WeightTokens, MaxTokens) :
          /\ op' = "compute_hhi_for_portfolio"
          /\ arg' = [isins |-> i, weights |-> w]
          /\ ret' = compute_hhi_for_portfolio(i, w)
    /\ UNCHANGED <<cfg, inv, feed>>

\* HopeEngine.compute_hmi(market_expectation, objective_probability)
CallHmi ==
    /\ Idle
    /\ \E m \in HopeValues, o \in HopeValues :
          /\ op' = "compute_hmi"
          /\ arg' = [market_expectation |-> m, objective_probability |-> o]
          /\ ret' = compute_hmi(m, o)
    /\ UNCHANGED <<cfg, inv, feed>>

\* POST /risk/sentiment
CallSentiment ==
    /\ Idle
    /\ \E v \in SeqsUpTo({-1, 0, 1}, MaxTokens + 1) :
          /\ op' = "aggregate_sentiment_from_sources"
          /\ arg' = [values |-> v]
          /\ ret' = aggregate_sentiment_from_sources(v)
    /\ UNCHANGED <<cfg, inv, feed>>

\* risk_integrator.cr.compute_from_provocations(provocations, nur, rsz)
CallChaotic ==
    /\ Idle
    /\ \E ps \in {PyNone} \cup {ListOf(q) : q \in SeqsUpTo(ProvocationSamples, MaxProvs)},
          n \in NurSamples, r \in RszSamples :
          /\ op' = "compute_from_provocations"
          /\ arg' = [provocations |-> ps, nur |-> n, rsz |-> r]
          /\ ret' = compute_from_provocations(cfg, ps, n, r)
    /\ UNCHANGED <<cfg, inv, feed>>

\* POST /risk/full
CallIntegrate ==
    /\ Idle
    /\ \E a \in IntegrateArgs :
          /\ op' = "integrate"
          /\ arg' = a
          /\ ret' = integrate(cfg, a)
    /\ UNCHANGED <<cfg, inv, feed>>

\* The response is sent; nothing of the request is kept.
Return ==
    /\ ~Idle
    /\ op' = "idle"
    /\ arg' = <<>>
    /\ ret' = <<>>
    /\ UNCHANGED <<cfg, inv, feed>>

Init ==
    /\ cfg \in {RiskIntegratorInit(c) : c \in ConfigSamples}
    /\ op = "idle"
    /\ arg = <<>>
    /\ ret = <<>>
    /\ inv = [i \in 1..NumInvocations |-> [pc |-> "idle"]]
    /\ feed = [pc |-> "idle"]

Next ==
    \/ CallHhiStructured
    \/ CallHhiForPortfolio
    \/ CallHmi
    \/ CallSentiment
    \/ CallChaotic
    \/ CallIntegrate
    \/ Return

Spec == Init /\ [][Next]_vars

-----------------------------------------------------------------------------
(* Invocations of integrate interleaved on the shared risk_integrator        *)
(* (risk_integrator.py line 81): each invocation i has its own arguments     *)
(* and locals in inv[i] and advances one step of integrate at a time; the    *)
(* instance fields cfg are shared, read by the chaotic step.                 *)

Invocations == 1..NumInvocations

\* Invocation i moves to pc with locals l
Advance(i, pc, l) ==
    /\ inv' = [inv EXCEPT ![i] = [pc |-> pc, a |-> inv[i].a, l |-> l]]
    /\ cfg' = InstanceAfterStep(cfg)
    /\ UNCHANGED <<op, arg, ret, feed>>

ConcCall(i) ==
    /\ inv[i].pc = "idle"
    /\ \E a \in ConcArgs : inv' = [inv EXCEPT ![i] = [pc |-> "hhi", a |-> a, l |-> <<>>]]
    /\ cfg' = InstanceAfterStep(cfg)
    /\ UNCHANGED <<op, arg, ret, feed>>

ConcHhi(i) ==
    /\ inv[i].pc = "hhi"
    /\ Advance(i, "hope", StepHhi(inv[i].a, inv[i].l))

ConcHope(i) ==
    /\ inv[i].pc = "hope"
    /\ Advance(i, "sentiment", StepHope(inv[i].a, inv[i].l))

ConcSentiment(i) ==
    /\ inv[i].pc = "sentiment"
    /\ Advance(i, "signals", StepSentiment(inv[i].a, inv[i].l))

ConcSignals(i) ==
    /\ inv[i].pc = "signals"
    /\ Advance(i, "gather", StepSignals(inv[i].a, inv[i].l))

ConcGather(i) ==
    /\ inv[i].pc = "gather"
    /\ Advance(i, "score", StepGather(cfg, inv[i].a, inv[i].l))

\* An exception of the chaotic layer leaves integrate at once.
ConcScore(i) ==
    /\ inv[i].pc = "score"
    /\ \E l \in {StepScore(cfg, inv[i].a, inv[i].l)} :
          Advance(i, IF Raised(l) THEN "done" ELSE "composite", l)

\* The locals of a finished invocation are its result.
ConcComposite(i) ==
    /\ inv[i].pc = "composite"
    /\ Advance(i, "done", StepComposite(inv[i].a, inv[i].l))

ConcReturn(i) ==
    /\ inv[i].pc = "done"
    /\ inv' = [inv EXCEPT ![i] = [pc |-> "idle"]]
    /\ cfg' = InstanceAfterStep(cfg)
    /\ UNCHANGED <<op, arg, ret, feed>>

NextConc ==
    \E i \in Invocations :
        \/ ConcCall(i)
        \/ ConcHhi(i)
        \/ ConcHope(i)
        \/ ConcSentiment(i)
        \/ ConcSignals(i)
        \/ ConcGather(i)
        \/ ConcScore(i)
        \/ ConcComposite(i)
        \/ ConcReturn(i)

SpecConc == Init /\ [][NextConc]_vars

-----------------------------------------------------------------------------
(* data/data_fetcher.py *)

\* The float values that are not numbers
NaN == [t |-> "nan"]
Inf(sign) == [t |-> "inf", sign |-> sign]

\* A DataFrame: its columns, each the sequence of its rows' values
Frame(cols) == [t |-> "frame", cols |-> cols]

\* hist.empty: no column or no row
Empty(hist) == \A c \in DOMAIN hist.cols : Len(hist.cols[c]) = 0

\* except Exception: every exception an attempt can end with is an Exception
CaughtValueErrorOnly(e) == e = "ValueError"

Caught(e) == e \in {"ValueError", "KeyError", "ConnectionError", "HTTPError",
                    "AttributeError", "TypeError"}

\* Line 47
DefaultResult ==
    [change_percent |-> Num(0), indicators |-> <<>>, series |-> <<>>, enriched |-> <<>>]

\* result.update(d)
Update(result, d) == d @@ result

\* (b - a) / a * 100.0 on float64 values of a Series, in MICRO: a NaN operand
\* gives NaN and a zero divisor gives inf, -inf or NaN, without an exception
PercentChange(a, b) ==
    IF a.t = "nan" \/ b.t = "nan" THEN NaN
    ELSE IF a.v = 0 THEN (IF b.v = 0 THEN NaN ELSE Inf(Sign(b.v)))
    ELSE Num(RoundHalfEven((b.v - a.v) * 100 * Micro, a.v))

\* Lines 63-66 and 83: the change over the last two closes, 0.0 for fewer.
\* close[-1] is a lookup by position only where the installed pandas still
\* falls back to positions on a date index; elsewhere it raises KeyError.
ChangeOf(close, positional) ==
    IF Len(close) >= 2
    THEN IF positional
         THEN PercentChange(close[Len(close) - 1], close[Len(close)])
         ELSE Raise("KeyError")
    ELSE Num(0)

\* close.fillna(0).tolist()
SeriesOf(close) ==
    [i \in DOMAIN close |-> IF close[i].t = "nan" THEN Num(0) ELSE close[i]]

\* Lines 62-72 and 82-89 on a frame with rows: the updated result, or the
\* exception of hist['Close'] or of close[-1]
Filled(result, hist, positional, enriched) ==
    IF "Close" \notin DOMAIN hist.cols THEN Raise("KeyError")
    ELSE IF Raised(ChangeOf(hist.cols.Close, positional))
         THEN ChangeOf(hist.cols.Close, positional)
    ELSE Update(result, [change_percent |-> ChangeOf(hist.cols.Close, positional),
                         series |-> SeriesOf(hist.cols.Close),
                         indicators |-> <<>>,
                         enriched |-> enriched])

\* Lines 58-73: the direct lookup, whose history() ended with outcome (an
\* exception, None or a frame): the result to return, or the exception
DirectAttempt(result, outcome, positional) ==
    IF Raised(outcome) THEN outcome
    ELSE IF outcome.t = "none" THEN Raise("ValueError")
    ELSE IF Empty(outcome) THEN Raise("ValueError")
    ELSE Filled(result, outcome, positional, <<>>)

\* Lines 29-37 and 40 on the parsed body data of the response: the ticker
\* returned, or the exception of a .get or of an index on a value of
\* another type
TickerOf(data) ==
    IF ~(Truthy(data) /\ data.t = "list") THEN [ticker |-> ""]
    ELSE IF ~IsDict(data.items[1]) THEN Raise("AttributeError")
    ELSE IF ~Truthy(Get(data.items[1].d, "data", PyNone)) THEN [ticker |-> ""]
    ELSE IF Get(data.items[1].d, "data", PyNone).t # "list" THEN Raise("TypeError")
    ELSE IF ~IsDict(data.items[1].d.data.items[1]) THEN Raise("AttributeError")
    ELSE LET rec == data.items[1].d.data.items[1].d
             ticker == Or(Or(Get(rec, "ticker", PyNone), Get(rec, "compositeFIGI", PyNone)),
                          Str(""))
             exch == Get(rec, "exchCode", PyNone)
         IN  IF Truthy(ticker) /\ Truthy(exch)
             THEN [ticker |-> ticker.s \o "." \o exch.s]
             ELSE [ticker |-> ticker.s]

\* _openfigi_map_isin_to_ticker(isin) with OPENFIGI_API set or not (key) and
\* the request ending with response (an exception, or the parsed body): the
\* string returned as [ticker |-> s], or the exception that leaves it
openfigi_map_isin_to_ticker(isin, key, response) ==
    IF ~key THEN [ticker |-> ""]
    ELSE LET out == IF Raised(response) THEN response ELSE TickerOf(response)
         IN  IF ~Raised(out) THEN out
             ELSE IF Caught(out.raised) THEN [ticker |-> ""]
             ELSE out

\* Lines 79-90: the lookup of the mapped ticker, whose history() ended with
\* outcome: the result to return, nothing (None or no rows), or the exception
MappedAttempt(result, mapped, outcome, positional) ==
    IF Raised(outcome) THEN outcome
    ELSE IF outcome.t = "none" THEN [returned |-> FALSE]
    ELSE IF Empty(outcome) THEN [returned |-> FALSE]
    ELSE LET r == Filled(result, outcome, positional, [mapped_ticker |-> mapped])
         IN  IF Raised(r) THEN r ELSE [returned |-> TRUE, result |-> r]

\* Lines 97-99
NoData(result, isin) == Update(result, [error |-> "No data for ISIN " \o isin])

\* The identifiers asked for: none, a ticker, an ISIN
IsinSamples == {"", "AAPL", "US0378331005"}

\* The process: yfinance imported or not (lines 8-11), OPENFIGI_API set or
\* not (line 13), and whether close[-1] is a lookup by position
EnvSamples == [yf : BOOLEAN, key : BOOLEAN, positional : BOOLEAN]

\* What Ticker(t).history(period="6mo") ends with
HistOutcomes ==
    {Raise("ConnectionError"),
     PyNone,
     Frame(<<>>),
     Frame([Close |-> <<>>]),
     Frame([Open |-> <<Num(4)>>]),
     Frame([Close |-> <<Num(4)>>]),
     Frame([Close |-> <<Num(4), Num(5)>>]),
     Frame([Close |-> <<Num(0), Num(5)>>]),
     Frame([Close |-> <<Num(4), Num(5), NaN>>])}

\* What the mapping request ends with: an exception of requests.post,
\* raise_for_status or r.json, or the parsed body
FigiRecord(rec) == ListOf(<<Dict([data |-> ListOf(<<Dict(rec)>>)])>>)

ResponseSamples ==
    {Raise("ConnectionError"),
     Raise("HTTPError"),
     Raise("ValueError"),
     ListOf(<<>>),
     Dict([error |-> Str("Invalid API key")]),
     ListOf(<<Str("rate limited")>>),
     ListOf(<<Dict([warning |-> Str("No identifier found.")])>>),
     ListOf(<<Dict([data |-> ListOf(<<>>)])>>),
     ListOf(<<Dict([data |-> ListOf(<<Str("AAPL")>>)])>>),
     FigiRecord([ticker |-> Str("AAPL"), exchCode |-> Str("US")]),
     FigiRecord([ticker |-> Str("AAPL")]),
     FigiRecord([compositeFIGI |-> Str("BBG000B9XRY4"), exchCode |-> PyNone]),
     FigiRecord([exchCode |-> Str("US")])}

-----------------------------------------------------------------------------
(* A call of fetch_enriched_feed_for_isin(isin), one external request at a  *)
(* time.  feed holds its position pc, its argument and environment, its    *)
(* local result, the requests made so far (calls) with what each ended     *)
(* with, and ret, what the call returned or raised.                        *)

\* The call ends, returning or raising r
FeedDone(f, r) == feed' = [pc |-> "done", ret |-> r] @@ f

\* Lines 93-99 for exception e leaving the inner handlers: caught by the
\* outer handler, the call returns the result with the error
FeedOuter(f, e) ==
    IF Caught(e) THEN FeedDone(f, NoData(f.result, f.isin)) ELSE FeedDone(f, Raise(e))

\* Lines 47-52
FeedCall ==
    /\ feed.pc = "idle"
    /\ \E isin \in IsinSamples, env \in EnvSamples :
          LET f == [isin |-> isin, env |-> env, result |-> DefaultResult, calls |-> <<>>]
          IN  IF isin = "" THEN FeedDone(f, f.result)
              ELSE IF ~env.yf THEN FeedDone(f, NoData(f.result, isin))
              ELSE feed' = [pc |-> "direct"] @@ f
    /\ UNCHANGED <<cfg, op, arg, ret, inv>>

\* Lines 56-74: the lookup of the identifier as a ticker
FeedDirect ==
    /\ feed.pc = "direct"
    /\ \E h \in HistOutcomes :
          LET f == [calls |-> Append(feed.calls, "direct"), hist |-> h] @@ feed
              out == DirectAttempt(feed.result, h, feed.env.positional)
          IN  IF ~Raised(out) THEN FeedDone(f, out)
              ELSE IF Caught(out.raised) THEN feed' = [pc |-> "map"] @@ f
              ELSE FeedOuter(f, out.raised)
    /\ UNCHANGED <<cfg, op, arg, ret, inv>>

\* Lines 76-77: the mapping of the identifier; the request is made only
\* with OPENFIGI_API set
FeedMap ==
    /\ feed.pc = "map"
    /\ \E r \in IF feed.env.key THEN ResponseSamples ELSE {PyNone} :
          LET m == openfigi_map_isin_to_ticker(feed.isin, feed.env.key, r)
              f == [calls |-> IF feed.env.key THEN Append(feed.calls, "map") ELSE feed.calls,
                    response |-> r] @@ feed
          IN  IF Raised(m) THEN FeedOuter(f, m.raised)
              ELSE IF m.ticker # "" /\ m.ticker # feed.isin
                   THEN feed' = [pc |-> "mapped", mapped |-> m.ticker] @@ f
              ELSE FeedDone(f, NoData(feed.result, feed.isin))
    /\ UNCHANGED <<cfg, op, arg, ret, inv>>

\* Lines 78-92: the lookup of the mapped ticker
FeedMapped ==
    /\ feed.pc = "mapped"
    /\ \E h \in HistOutcomes :
          LET f == [calls |-> Append(feed.calls, "mapped"), hist2 |-> h] @@ feed
              out == MappedAttempt(feed.result, feed.mapped, h, feed.env.positional)
          IN  IF Raised(out)
              THEN IF Caught(out.raised)
                   THEN FeedDone(f, NoData(feed.result, feed.isin))
                   ELSE FeedOuter(f, out.raised)
              ELSE IF out.returned THEN FeedDone(f, out.result)
              ELSE FeedDone(f, NoData(feed.result, feed.isin))
    /\ UNCHANGED <<cfg, op, arg, ret, inv>>

\* The caller has the record; nothing of the call is kept.
FeedReturn ==
    /\ feed.pc = "done"
    /\ feed' = [pc |-> "idle"]
    /\ UNCHANGED <<cfg, op, arg, ret, inv>>

NextFeed ==
    \/ FeedCall
    \/ FeedDirect
    \/ FeedMap
    \/ FeedMapped
    \/ FeedReturn

SpecFeed == Init /\ [][NextFeed]_vars

-----------------------------------------------------------------------------
(* Properties of the engines, C1 to C5 *)

\* The request being answered is o and it returned (did not raise)
Returned(o) == op = o /\ ~Raised(ret)

HasError(r) == "error" \in DOMAIN r

NumEntries(w) == Cardinality(DOMAIN w)
WeightSum(w) == SumFun(w, DOMAIN w)
NonNegative(w) == \A k \in DOMAIN w : w[k] >= 0
AllEqual(w) == \A j, k \in DOMAIN w : w[j] = w[k]

\* C1 as claimed: for every mapping whose weights sum to a positive value,
\* compute_hhi_structured returns hhi in [1/n, 1] and hhi_normalized in
\* [0, 1]; equal weights with n > 1 give hhi_normalized = 0 and n = 1 gives
\* hhi_normalized = 1.
C1_AsClaimed ==
    (op = "compute_hhi_structured" /\ WeightSum(arg.weights) > 0) =>
        /\ ~HasError(ret)
        /\ NumEntries(arg.weights) * ret.hhi >= Micro
        /\ ret.hhi <= Micro
        /\ ret.hhi_normalized >= 0
        /\ ret.hhi_normalized <= Micro
        /\ (NumEntries(arg.weights) > 1 /\ AllEqual(arg.weights)) => ret.hhi_normalized = 0
        /\ NumEntries(arg.weights) = 1 => ret.hhi_normalized = Micro

\* C1, amended: for every mapping of non-negative weights with a positive
\* sum, the returned hhi, which is rounded to 6 decimals, is at least
\* 1/n - 0.0000005 and at most 1, hhi_normalized is in [0, 1], equal weights
\* with n > 1 give hhi_normalized = 0 and n = 1 gives hhi_normalized = 1.
C1_HhiRange ==
    (/\ op = "compute_hhi_structured"
     /\ WeightSum(arg.weights) > 0
     /\ NonNegative(arg.weights)) =>
        /\ ~HasError(ret)
        /\ 2 * NumEntries(arg.weights) * ret.hhi + NumEntries(arg.weights) >= 2 * Micro
        /\ ret.hhi <= Micro
        /\ ret.hhi_normalized >= 0
        /\ ret.hhi_normalized <= Micro
        /\ (NumEntries(arg.weights) > 1 /\ AllEqual(arg.weights)) => ret.hhi_normalized = 0
        /\ NumEntries(arg.weights) = 1 => ret.hhi_normalized = Micro

\* Three equal positive weights: hhi is 0.333333, below 1/3, and normalises to 0.
C1_Witness ==
    /\ op = "compute_hhi_structured"
    /\ NumEntries(arg.weights) = 3
    /\ AllEqual(arg.weights)
    /\ WeightSum(arg.weights) > 0
    /\ ~HasError(ret)
    /\ 3 * ret.hhi < Micro
    /\ ret.hhi_normalized = 0

\* The six sub-scores (MICRO) that a returned result of integrate was built from
SubScores(r) ==
    <<Get(r.portfolio_hhi, "hhi_normalized", 0),
      SignalScore(r.nur, "severity_score").v,
      SignalScore(r.rsz, "action_weight").v,
      SignalScore(r.cycles, "cycle_pressure").v,
      Get(r.hope, "hmi_normalized", 0),
      Get(r.chaotic_risk, "cr_scalar", 0)>>

\* 0.20 hhi_normalized + 0.15 nur_score + 0.10 rsz_score + 0.15 cycles_score
\* + 0.20 hope_norm + 0.20 cr_scalar, in units of 1e-8
WeightedSum(s) == 20 * s[1] + 15 * s[2] + 10 * s[3] + 15 * s[4] + 20 * s[5] + 20 * s[6]

CompositeAt(s) == Composite(s[1], s[2], s[3], s[4], s[5], s[6])

AllSix(v) == [k \in 1..6 |-> v]

\* C2 as claimed: the composite that integrate returns equals the weighted sum
\* of the six sub-scores.
C2_AsClaimed ==
    Returned("integrate") => ret.composite * 100 = WeightedSum(SubScores(ret))

\* C2, amended: the composite that integrate returns is the weighted sum
\* 0.20 hhi_normalized + 0.15 nur_score + 0.10 rsz_score + 0.15 cycles_score
\* + 0.20 hope_norm + 0.20 cr_scalar rounded to 6 decimals; raising any one
\* sub-score with the other five fixed never lowers it; it is 0 when all six
\* are 0 and 1.0 when all six are 1.
C2_Composite ==
    /\ CompositeAt(AllSix(0)) = 0
    /\ CompositeAt(AllSix(Micro)) = 100 * Micro
    /\ Returned("integrate") =>
          /\ ret.composite = RoundHalfEven(WeightedSum(SubScores(ret)), 100)
          /\ \A k \in 1..6, d \in {1, Milli, Micro} :
                /\ CompositeAt([SubScores(ret) EXCEPT ![k] = @ + d])
                      >= CompositeAt(SubScores(ret))
                /\ RoundHalfEven(CompositeAt([SubScores(ret) EXCEPT ![k] = @ + d]), 100)
                      >= ret.composite
          /\ SubScores(ret) = AllSix(0) => ret.composite = 0
          /\ SubScores(ret) = AllSix(Micro) => ret.composite = Micro

\* A result whose weighted sum has digits beyond the sixth decimal
C2_Witness ==
    /\ Returned("integrate")
    /\ WeightedSum(SubScores(ret)) % 100 # 0
    /\ ret.composite > 0
    /\ ret.chaotic_risk.cr_scalar > 0

\* C3: for every provocation sequence, any nur and rsz and any configuration,
\* the cr_scalar that compute_from_provocations returns (to its caller, and
\* to integrate as chaotic_risk) lies in [0, 1].
C3_CrScalarRange ==
    /\ Returned("compute_from_provocations") =>
          ret.cr_scalar >= 0 /\ ret.cr_scalar <= Micro
    /\ Returned("integrate") =>
          ret.chaotic_risk.cr_scalar >= 0 /\ ret.chaotic_risk.cr_scalar <= Micro

\* compressed * global_dampen is above 1 and cr_scalar is 1
C3_Witness ==
    /\ Returned("compute_from_provocations")
    /\ DOMAIN ret.components # {}
    /\ ret.components.compressed * cfg.global_dampen > P4 * Milli
    /\ ret.cr_scalar = Micro

\* A portfolio that is empty or whose weights sum to 0
Unweighable(portfolio) ==
    portfolio = <<>> \/ WeightSum(PortfolioWeights(portfolio)) = 0

OneHolding == <<[isin |-> "A", weight |-> 10]>>

\* C4: a validation failure of the concentration computation is an outcome
\* with an error string and never an exception: compute_hhi_structured
\* returns an error and no hhi for an empty mapping and for weights summing
\* to 0; compute_hhi_for_portfolio returns an error for a non-numeric weight
\* and for differing identifier and weight counts; integrate with an empty or
\* zero-sum portfolio returns a result whose portfolio_hhi carries the error,
\* and raises only what it raises on the same arguments with a valid
\* portfolio.
C4_ValidationErrors ==
    /\ (/\ op = "compute_hhi_structured"
        /\ (DOMAIN arg.weights = {} \/ WeightSum(arg.weights) = 0)) =>
          /\ ~Raised(ret)
          /\ HasError(ret)
          /\ ret.hhi = PyNone
    /\ (/\ op = "compute_hhi_for_portfolio"
        /\ \/ \E i \in DOMAIN arg.weights : arg.weights[i] = Str("x")
           \/ Len(SplitIsins(arg.isins)) # Len(SplitWeights(arg.weights))) =>
          /\ ~Raised(ret)
          /\ HasError(ret)
    /\ (op = "integrate" /\ Unweighable(arg.portfolio)) =>
          IF Raised(ret)
          THEN ret = integrate(cfg, [arg EXCEPT !.portfolio = OneHolding])
          ELSE /\ HasError(ret.portfolio_hhi)
               /\ ret.portfolio_hhi.hhi = PyNone

\* integrate scored the provocations of a request whose weights sum to 0
C4_Witness ==
    /\ Returned("integrate")
    /\ arg.portfolio # <<>>
    /\ Unweighable(arg.portfolio)
    /\ HasError(ret.portfolio_hhi)
    /\ ret.chaotic_risk.cr_scalar > 0

\* C5: malformed or missing optional sub-fields never abort scoring:
\* compute_from_provocations and integrate return a result, without raising,
\* whatever the provocation entries and the nur, rsz and cycles structs hold.
C5_NeverAborts ==
    op \in {"compute_from_provocations", "integrate"} => ~Raised(ret)

-----------------------------------------------------------------------------
(* Properties of the integrator and of the chaotic layer, C6 to C10 *)

\* C6: interleaved invocations of integrate on the shared instance: no step
\* of any invocation changes the fields of the instance, and the result of
\* every invocation is the result of integrate run alone on its arguments.
C6_Interleaving ==
    /\ [](\A i \in Invocations :
             inv[i].pc = "done" => inv[i].l = integrate(cfg, inv[i].a))
    /\ [][cfg' = cfg]_vars

\* One invocation has finished while another, on other arguments, is between
\* the two halves of the chaotic step
C6_Witness ==
    \E i, j \in Invocations :
        /\ inv[i].pc = "done"
        /\ inv[j].pc = "score"
        /\ inv[i].a # inv[j].a
        /\ ~Raised(inv[i].l)
        /\ inv[i].l.chaotic_risk.cr_scalar > 0

\* The threshold rule on a composite in MICRO
LevelOf(composite) ==
    IF composite > 65 * P4 THEN "DANGER"
    ELSE IF composite > 40 * P4 THEN "ELEVATED"
    ELSE IF composite > 20 * P4 THEN "WATCH"
    ELSE "STABLE"

\* C7: in every result of integrate, risk_level is the level that the
\* threshold rule (> 0.65 DANGER, > 0.4 ELEVATED, > 0.2 WATCH, else STABLE)
\* gives to the composite of that same result.
C7_LevelMatchesComposite ==
    Returned("integrate") => ret.risk_level = LevelOf(ret.composite)

NoHope == [hmi |-> PyNone, hmi_normalized |-> 0]

BothSupplied(a) == a.market_expectation.t # "none" /\ a.objective_prob.t # "none"

\* C8: compute_hmi with objective_probability absent or <= 0 returns, without
\* raising, hmi_normalized = 0 and an error; integrate calls compute_hmi only
\* when market_expectation and objective_prob are both supplied, and the
\* composite uses hope_norm = 0 in every other case and whenever compute_hmi
\* reported the error.
C8_HopeGuard ==
    /\ (/\ op = "compute_hmi"
        /\ \/ arg.objective_probability.t = "none"
           \/ arg.objective_probability.v <= 0) =>
          /\ ~Raised(ret)
          /\ ret.hmi_normalized = 0
          /\ HasError(ret)
    /\ Returned("integrate") =>
          /\ ~BothSupplied(arg) => ret.hope = NoHope
          /\ BothSupplied(arg) =>
                ret.hope = compute_hmi(arg.market_expectation, arg.objective_prob)
          /\ (~BothSupplied(arg) \/ HasError(ret.hope)) =>
                ret.composite =
                    RoundHalfEven(WeightedSum([SubScores(ret) EXCEPT ![5] = 0]), 100)

\* integrate was given a market expectation and no objective probability
C8_Witness ==
    /\ Returned("integrate")
    /\ arg.market_expectation.t = "num"
    /\ arg.objective_prob.t = "none"
    /\ ret.hope = NoHope

\* C9: for an empty or absent provocation sequence compute_from_provocations
\* returns exactly cr_scalar 0, no components and no flags, whatever nur, rsz
\* and the configuration are.
C9_EmptyProvocations ==
    /\ (op = "compute_from_provocations" /\ ~Truthy(arg.provocations)) =>
          /\ DOMAIN ret = {"cr_scalar", "components", "flags"}
          /\ ret.cr_scalar = 0
          /\ DOMAIN ret.components = {}
          /\ ret.flags = <<>>
    /\ (Returned("integrate") /\ ~Truthy(arg.provocations)) =>
          /\ ret.chaotic_risk.cr_scalar = 0
          /\ DOMAIN ret.chaotic_risk.components = {}
          /\ ret.chaotic_risk.flags = <<>>

\* An empty list with a severity that is not a number, on an instance whose
\* configuration is not the default
C9_Witness ==
    /\ op = "compute_from_provocations"
    /\ arg.provocations.t = "list"
    /\ arg.nur = Dict([severity_score |-> Str("high")])
    /\ cfg.global_dampen # DefaultGlobalDampen
    /\ ret.cr_scalar = 0

Focused(r) == \E i \in DOMAIN r.flags : r.flags[i] = "FOCUSED_HIGH_INTENSITY"

EnergySum(r) == r.components.sum_institutional + r.components.sum_individual

\* vector or "unknown" of every entry
VectorLabels(ps) ==
    {Or(Get(ps[i], "vector", PyNone), Str("unknown")) : i \in DOMAIN ps}

Scored == Returned("compute_from_provocations") /\ Truthy(arg.provocations)

\* C10 as claimed: FOCUSED_HIGH_INTENSITY is in flags exactly when
\* coherence > 0.8 and sum_inst + sum_ind > 10.
C10_AsClaimed ==
    Scored =>
        (Focused(ret) <=> (/\ ret.components.vector_coherence > 8 * Milli
                           /\ EnergySum(ret) > 10 * Milli))

\* C10, amended: for every non-empty provocation sequence, flags contains
\* FOCUSED_HIGH_INTENSITY exactly when coherence > 0.8 and total_energy > 10,
\* where coherence = 1 - normalized entropy of the per-vector absolute
\* weighted intensities and total_energy = sum_inst + sum_ind + 1e-12; when
\* all provocations share one vector label coherence is 1 and the flag is
\* present whenever total_energy > 10.
C10_FocusedFlag ==
    Scored =>
        /\ Focused(ret) <=>
              (/\ ret.components.vector_coherence > 8 * Milli
               /\ \/ EnergySum(ret) > 10 * Milli
                  \/ EnergySum(ret) = 10 * Milli)
        /\ ret.components.total_energy = EnergySum(ret)
        /\ ret.components.vector_coherence =
              P4 - entropy_of_weights(
                      Gather(cfg, arg.provocations.items, 1, GatherStart).vector_map)
        /\ Cardinality(VectorLabels(arg.provocations.items)) = 1 =>
              /\ ret.components.vector_coherence = P4
              /\ EnergySum(ret) >= 10 * Milli => Focused(ret)

\* One vector whose weighted intensities sum to exactly 10
C10_Witness ==
    /\ Scored
    /\ Cardinality(VectorLabels(arg.provocations.items)) = 1
    /\ EnergySum(ret) = 10 * Milli
    /\ Focused(ret)

-----------------------------------------------------------------------------
(* Properties of the feed fetcher, C11 *)

FeedKeys == {"change_percent", "indicators", "series", "enriched"}

\* history() ended with data the code can read: a frame with rows and a
\* Close column, whose last two closes (if there are two) can be looked up
Usable(h, positional) ==
    /\ ~Raised(h)
    /\ h.t = "frame"
    /\ \E c \in DOMAIN h.cols : Len(h.cols[c]) > 0
    /\ "Close" \in DOMAIN h.cols
    /\ (Len(h.cols.Close) >= 2 => positional)

Attempted(name) == "calls" \in DOMAIN feed /\ \E i \in DOMAIN feed.calls : feed.calls[i] = name

\* No lookup of the call in flight ended with usable data
AllFailed ==
    /\ Attempted("direct") => ~Usable(feed.hist, feed.env.positional)
    /\ Attempted("mapped") => ~Usable(feed.hist2, feed.env.positional)

\* C11: fetch_enriched_feed_for_isin never raises and always returns a record
\* with the keys change_percent, indicators, series and enriched, whatever
\* the direct lookup, the mapping request and the mapped lookup end with
\* (data, empty data or an exception); the mapped lookup is made only after
\* the direct lookup, and only when that one failed; and when every attempt
\* made for a non-empty identifier failed, the record holds the defaults
\* (0.0, empty map, empty sequence, empty map) plus the error string.
C11_FeedNeverRaises ==
    /\ feed.pc = "done" =>
          /\ ~Raised(feed.ret)
          /\ FeedKeys \subseteq DOMAIN feed.ret
    /\ Attempted("mapped") =>
          /\ feed.calls[1] = "direct"
          /\ ~Usable(feed.hist, feed.env.positional)
    /\ (feed.pc = "done" /\ feed.isin # "" /\ AllFailed) =>
          feed.ret = [change_percent |-> Num(0), indicators |-> <<>>,
                      series |-> <<>>, enriched |-> <<>>,
                      error |-> "No data for ISIN " \o feed.isin]

\* The direct lookup ended with an exception, the mapping gave another
\* ticker, the lookup of that ticker failed too, and the call returned the
\* defaults with the error
C11_Witness ==
    /\ feed.pc = "done"
    /\ feed.calls = <<"direct", "map", "mapped">>
    /\ Raised(feed.hist)
    /\ feed.mapped = "AAPL.US"
    /\ Raised(feed.hist2)
    /\ ~Raised(feed.ret)
    /\ "error" \in DOMAIN feed.ret
    /\ feed.ret.series = <<>>

====
